---- MODULE Spec2Model ----
(***************************************************************************)
(* Matrix-style Profile Stream (main.js): the rain field, the profile      *)
(* factory and the capsule manager as state machines.                      *)
(*                                                                         *)
(* Units.  Times are in milliseconds, scale factors of CONFIG in tenths    *)
(* (1.0 is 10), the spawn accumulator in 1/10000, opacity in 1/1000,       *)
(* column positions in 1/100000 px.  The column count is computed in       *)
(* IEEE-754 double arithmetic, as the engine computes it.                  *)
(*                                                                         *)
(* Specifications.  SpecRain: the rain field.  SpecCapsules: the capsule   *)
(* manager; FairCapsules adds the fairness of its callbacks.  SpecType:    *)
(* typeText for any text.  SpecProfile: ProfileFactory.generate.           *)
(* SpecResources: the rain field and the capsule manager, one running at   *)
(* a time.  SpecFormat: formatMoneyUSD and the inline text.  SpecFrame:    *)
(* the frame callback statement by statement.  SpecGate: the spawn gate    *)
(* with what each call found.  SpecRecycle: the rain field in a window     *)
(* that can collapse.  SpecTwoTyping: two typewriters at once.  Spec: the  *)
(* whole page.                                                             *)
(***************************************************************************)
EXTENDS Integers, Sequences, FiniteSets, Bags, TLC

Max(a, b) == IF a >= b THEN a ELSE b
Min(a, b) == IF a <= b THEN a ELSE b

(***************************************************************************)
(* IEEE-754 binary64 multiplication, as used by `*` in resetColumns and    *)
(* update.  A natural number is a little-endian sequence of limbs in base  *)
(* LimbBase; a double is m * 2^e with m of exactly MantBits bits.          *)
(***************************************************************************)
LimbBits == 14
LimbBase == 16384
MantBits == 53

RECURSIVE Trim(_)
Trim(a) == IF a = <<>> THEN <<>>
           ELSE IF a[Len(a)] = 0 THEN Trim(SubSeq(a, 1, Len(a) - 1)) ELSE a

RECURSIVE MulSmallC(_, _, _)
MulSmallC(a, k, c) ==
  IF a = <<>>
    THEN IF c = 0 THEN <<>> ELSE <<c % LimbBase>> \o MulSmallC(<<>>, k, c \div LimbBase)
    ELSE <<(a[1] * k + c) % LimbBase>> \o MulSmallC(Tail(a), k, (a[1] * k + c) \div LimbBase)

MulSmall(a, k) == Trim(MulSmallC(a, k, 0))

Limb(a) == IF a = <<>> THEN 0 ELSE a[1]
Rest(a) == IF a = <<>> THEN <<>> ELSE Tail(a)

RECURSIVE AddBigC(_, _, _)
AddBigC(a, b, c) ==
  IF a = <<>> /\ b = <<>>
    THEN IF c = 0 THEN <<>> ELSE <<c>>
    ELSE <<(Limb(a) + Limb(b) + c) % LimbBase>>
           \o AddBigC(Rest(a), Rest(b), (Limb(a) + Limb(b) + c) \div LimbBase)

AddBig(a, b) == Trim(AddBigC(a, b, 0))

\* a * LimbBase
ShiftLimb(a) == IF a = <<>> THEN <<>> ELSE <<0>> \o a

RECURSIVE MulBig(_, _)
MulBig(a, b) ==
  IF b = <<>> \/ a = <<>> THEN <<>>
  ELSE AddBig(MulSmall(a, b[1]), ShiftLimb(MulBig(a, Tail(b))))

\* a \div k and a % k, for 0 < k <= LimbBase, from the high limb down; q
\* collects the quotient's limbs.
RECURSIVE DivSmallR(_, _, _, _)
DivSmallR(a, k, r, q) ==
  IF a = <<>> THEN [q |-> Trim(q), r |-> r]
  ELSE DivSmallR(SubSeq(a, 1, Len(a) - 1), k,
                 (r * LimbBase + a[Len(a)]) % k,
                 <<(r * LimbBase + a[Len(a)]) \div k>> \o q)

DivSmall(a, k) == DivSmallR(a, k, 0, <<>>)

RECURSIVE SmallBitLen(_)
SmallBitLen(n) == IF n = 0 THEN 0 ELSE 1 + SmallBitLen(n \div 2)

\* The bit length of a trimmed number.
BitLenT(t) == IF t = <<>> THEN 0 ELSE (Len(t) - 1) * LimbBits + SmallBitLen(t[Len(t)])
BitLen(a) == BitLenT(Trim(a))

RECURSIVE Zeros(_)
Zeros(n) == IF n = 0 THEN <<>> ELSE <<0>> \o Zeros(n - 1)

ShiftLeftT(t, s) ==
  IF t = <<>> THEN <<>> ELSE Zeros(s \div LimbBits) \o MulSmall(t, 2 ^ (s % LimbBits))
ShiftLeft(a, s) == ShiftLeftT(Trim(a), s)

\* a shifted right by s bits, and whether a non-zero bit was shifted out:
\* k whole limbs go first, then s % LimbBits bits.
ShiftRightD(d, low) ==
  [q |-> d.q, sticky |-> (d.r # 0) \/ (\E j \in DOMAIN low : low[j] # 0)]
ShiftRightK(t, s, k) ==
  ShiftRightD(DivSmall(SubSeq(t, k + 1, Len(t)), 2 ^ (s % LimbBits)), SubSeq(t, 1, k))
ShiftRightT(t, s) == ShiftRightK(t, s, Min(s \div LimbBits, Len(t)))
ShiftRight(a, s) == ShiftRightT(Trim(a), s)

IsOdd(a) == a # <<>> /\ a[1] % 2 = 1

RECURSIVE ToBig(_)
ToBig(n) == IF n = 0 THEN <<>> ELSE <<n % LimbBase>> \o ToBig(n \div LimbBase)

RECURSIVE ToInt(_)
ToInt(a) == IF a = <<>> THEN 0 ELSE a[1] + LimbBase * ToInt(Tail(a))

FZero == [m |-> <<>>, e |-> 0]

\* The double nearest to p * 2^e, ties to even; `inexact` says that p is
\* already a truncation of the exact value.  RoundN: p has n bits.  RoundX: x
\* is p without the bits below the rounding bit.  RoundQ: q is the truncated
\* mantissa, half the rounding bit.  Renorm: the carry of rounding up.
Renorm(r, e) ==
  IF BitLen(r) > MantBits THEN [m |-> ShiftRight(r, 1).q, e |-> e + 1]
  ELSE [m |-> r, e |-> e]
RoundQ(q, half, sticky, e) ==
  Renorm(IF half /\ (sticky \/ IsOdd(q)) THEN AddBig(q, <<1>>) ELSE q, e)
RoundX(x, e, inexact) ==
  RoundQ(ShiftRight(x.q, 1).q, IsOdd(x.q), x.sticky \/ inexact, e)
RoundN(p, e, inexact, n) ==
  IF n = 0 THEN FZero
  ELSE IF n <= MantBits
    THEN [m |-> ShiftLeft(p, MantBits - n), e |-> e - (MantBits - n)]
  ELSE RoundX(ShiftRight(p, n - MantBits - 1), e + (n - MantBits), inexact)
RoundToDouble(p, e, inexact) == RoundN(p, e, inexact, BitLen(p))

FMul(a, b) ==
  IF a.m = <<>> \/ b.m = <<>> THEN FZero
  ELSE RoundToDouble(MulBig(a.m, b.m), a.e + b.e, FALSE)

FromInt(n) == RoundToDouble(ToBig(n), 0, FALSE)

\* The double a decimal with one fractional digit denotes: the literal 0.7,
\* parseFloat("1.6").
FromQuotient(d, e) == RoundToDouble(d.q, e, d.r # 0)
FromTenths(k) == FromQuotient(DivSmall(ShiftLeft(ToBig(k), 64), 10), 0 - 64)

\* Math.floor of a non-negative double.
FFloor(a) ==
  IF a.m = <<>> THEN 0
  ELSE IF a.e >= 0 THEN ToInt(ShiftLeft(a.m, a.e))
  ELSE ToInt(ShiftRight(a.m, 0 - a.e).q)

(***************************************************************************)
(* Program constants.                                                      *)
(***************************************************************************)
glyphSize == 16
\* glyphSize is 2^GlyphShift: w / size only lowers the exponent of w.
GlyphShift == 4
\* 0.7 and the recycle margin of update (h + 20).
BaseDensityTenths == 7
RecycleMargin == 20
MinColumns == 8
\* dt = Math.min(0.05, ...), in ms.
MaxDtMs == 50
\* duration of dissolve, in ms.
duration == 500
\* One px in the fixed-point unit of column positions.
YUnit == 10 * 10 * 1000

(***************************************************************************)
(* Sampled inputs: slider values, viewport sizes, clock readings and the   *)
(* values Math.random() is mapped to (the ends of each range).             *)
(***************************************************************************)
DensityValues == {10, 16}
\* The speed slider moves from its default 1.0 to 3.0.
SpeedValues == {30}
RateValues == {10, 20}
\* canvas.clientWidth; 0 is the canvas of a page in a hidden frame.
Widths == {0, 800}
Heights == {40}
\* The height of a window collapsed to nothing.
FlatHeights == {0}
\* Time between two frames, in ms; 0 is two frames within one clock reading.
FrameGaps == {0, 50, 1000}
\* rand(60, 180), the base fall speed in px/s, and randi(10, 40), the stream length.
BaseSpeeds == {179}
StreamLengths == {10}

\* randi(min, max) = floor(rand(min, max)): the ends of its range.
randi(min, max) == IF max > min THEN {min, max - 1} ELSE {min}

VARIABLES
  CONFIG,        \* the CONFIG object: the fields the logic reads
  clientWidth,   \* canvas.clientWidth
  clientHeight,  \* canvas.clientHeight
  rain,          \* the MatrixRain instance: columnCount, columns
  lastOp,        \* history: the last handler that touched the rain field or the viewport, its dt,
                 \* and the indices of the columns it recycled
  capsules,      \* the CapsuleManager instance: pool, active, spawnAccumulator, typeTimer ("id" for any timer id)
  nodes,         \* the capsule <div>s ever created, by index
  timers,        \* pending setTimeout / requestAnimationFrame callbacks (a bag)
  profile,       \* what the ProfileFactory.generate call under check returned (<<>> before it)
  rendered,      \* the call of a text builder: its argument and the text it returned (<<>> before it)
  frame          \* history of the frame callback: frames started, the calls the running one
                 \* has made, its dt, and the accumulator and threshold its spawn gate compared

vars == <<CONFIG, clientWidth, clientHeight, rain, lastOp, capsules, nodes, timers, profile, rendered, frame>>
rainVars == <<rain, lastOp>>
capsuleVars == <<capsules, nodes, timers>>

(***************************************************************************)
(* Matrix rain.                                                            *)
(***************************************************************************)
\* resetColumns: (w / size) * density, with density = 0.7 * CONFIG.densityScale.
NumCols(w, densityScale) ==
  LET density == FMul(FromTenths(BaseDensityTenths), FromTenths(densityScale))
      cells   == [FromInt(w) EXCEPT !.e = @ - GlyphShift]
  IN  Max(MinColumns, FFloor(FMul(cells, density)))

\* update: (canvas.clientWidth / size) * 0.7 * CONFIG.densityScale, left to right.
DesiredCols(w, densityScale) ==
  LET cells == [FromInt(w) EXCEPT !.e = @ - GlyphShift]
  IN  Max(MinColumns,
          FFloor(FMul(FMul(cells, FromTenths(BaseDensityTenths)), FromTenths(densityScale))))

\* Both counts for every sampled viewport and density, computed once.
ColumnCounts ==
  [w \in Widths, d \in DensityValues |->
     [numCols |-> NumCols(w, d), desiredCols |-> DesiredCols(w, d)]]

\* The random draws of one spawnColumn call.
ColumnDraw(screenH) ==
  [y : randi(0 - screenH, 0), r : BaseSpeeds, streamLength : StreamLengths]

\* The draws of the spawnColumn calls of one handler: one for the columns at
\* even indices, another for those at odd indices, with different y where
\* randi(-screenH, 0) has more than one value.
ColumnDraws(screenH) ==
  {ds \in ColumnDraw(screenH) \X ColumnDraw(screenH) : ds[1].y # ds[2].y \/ screenH = 0}
DrawOf(ds, i) == ds[(i % 2) + 1]

\* spawnColumn: x, glyphIndices and drift are read by draw only.
spawnColumn(d, speedScale) ==
  [y |-> d.y * YUnit, speed |-> d.r * speedScale, streamLength |-> d.streamLength]

\* resetColumns
resetColumns(w, h, cfg, ds) ==
  LET numCols == ColumnCounts[w, cfg.densityScale].numCols
  IN  [columnCount |-> numCols,
       columns |-> [i \in 1..numCols |-> spawnColumn(DrawOf(ds, i), cfg.speedScale)]]

\* col.y += col.speed * dt: the speed slider has no effect on a moving column.
AdvanceUnscaled(col, speedScale, dt) == [col EXCEPT !.y = @ + col.speed * 10 * dt]

\* col.y += col.speed * speedScale * dt
Advance(col, speedScale, dt) == [col EXCEPT !.y = @ + col.speed * speedScale * dt]

\* col.y - col.streamLength * size > h * 20
PastBottomTimes(col, h) ==
  col.y - col.streamLength * glyphSize * YUnit > (h * RecycleMargin) * YUnit

\* col.y - col.streamLength * size > h + 20
PastBottom(col, h) == col.y - col.streamLength * glyphSize * YUnit > (h + RecycleMargin) * YUnit

\* The loop body of update for one column.
UpdateColumn(col, h, cfg, dt, d) ==
  LET moved == Advance(col, cfg.speedScale, dt)
  IN  IF PastBottom(moved, h) THEN spawnColumn(d, cfg.speedScale) ELSE moved

\* MatrixRain.update(dt)
update(dt) ==
  \E ds \in ColumnDraws(clientHeight) :
    IF ColumnCounts[clientWidth, CONFIG.densityScale].desiredCols # rain.columnCount
      THEN /\ rain' = resetColumns(clientWidth, clientHeight, CONFIG, ds)
           /\ lastOp' = [op |-> "rebuild", dt |-> dt, recycled |-> {}]
      ELSE /\ rain' = [rain EXCEPT !.columns =
                         [i \in DOMAIN rain.columns |->
                            UpdateColumn(rain.columns[i], clientHeight, CONFIG, dt, DrawOf(ds, i))]]
           /\ lastOp' = [op |-> "update", dt |-> dt,
                         recycled |-> {i \in DOMAIN rain.columns :
                                         PastBottom(Advance(rain.columns[i], CONFIG.speedScale, dt),
                                                    clientHeight)}]

(***************************************************************************)
(* Capsule manager.                                                        *)
(*                                                                         *)
(* A node is a capsule <div>: className, the style properties the code     *)
(* writes (opacity in 1/1000, -1 when never set; transform; filter), the   *)
(* textContent of its content <div>, and whether it is a child of the      *)
(* container.  fullText, doneCalls and fullCount are history: the text of  *)
(* the last typeText call on the node, how often its completion callback   *)
(* ran, and how often an assignment to textContent produced that text in   *)
(* full.  left/top are overwritten by every spawn and read by nothing.     *)
(*                                                                         *)
(* A pending callback is a record: kind "step" (setTimeout(step)), "hold"  *)
(* (setTimeout(() => this.dissolve(node))), "jitter"                       *)
(* (requestAnimationFrame(jitter)) or "pulse" (the reversion of            *)
(* pulseHighlights), with the variables its closure captured.  `attached`  *)
(* says whether the content <div> the closure holds is still a child of    *)
(* its node.                                                               *)
(***************************************************************************)
\* CONFIG.maxCapsules (12 in main.js), scaled down.
maxCapsules == 2

Modes == {"json", "inline", "hex"}
\* rand(0.6, 1.4), the spawn threshold, in 1/10000.
Thresholds == {6000, 13999}
\* rand(0.04, 0.08), seconds per character, in ms.
SpawnSpc == {40}
\* nowMs() - start at a jitter callback, in ms.
ElapsedSamples == {250, 500}

\* The text of a capsule, cut to the first two characters of the
\* serialisation: JSON.stringify(profile, null, 2), the inline pairs, the
\* hex bytes of JSON.stringify(profile).
BuildText(mode) ==
  IF mode = "json" THEN <<"{", "\n">>
  ELSE IF mode = "inline" THEN <<"i", "d">>
  ELSE <<"7", "b">>

NewNode ==
  [className |-> "", opacity |-> 0 - 1, transform |-> "", filter |-> "",
   content |-> <<>>, inDom |-> FALSE,
   fullText |-> <<>>, doneCalls |-> 0, fullCount |-> 0]

Callback(kind, node) ==
  [kind |-> kind, node |-> node, chars |-> <<>>, i |-> 0, spc |-> 0,
   t |-> 0, original |-> "", attached |-> TRUE]

Schedule(bag, cb) == bag (+) SetToBag({cb})
Cancel(bag, cb) == bag (-) SetToBag({cb})
Pending == BagToSet(timers)

\* node.innerHTML = '': the content <div> of node n leaves the node, and
\* with it every closure that holds it.
DetachRec(r, n) ==
  IF r.node = n /\ r.kind \in {"step", "pulse"} /\ r.attached
    THEN [r EXCEPT !.attached = FALSE] ELSE r

DetachAll(bag, n) ==
  LET S == {DetachRec(r, n) : r \in DOMAIN bag}
      Was(s) == [s EXCEPT !.attached = TRUE]
  IN  [s \in S |->
         (IF s \in DOMAIN bag /\ DetachRec(s, n) = s THEN bag[s] ELSE 0)
         + (IF s.node = n /\ s.kind \in {"step", "pulse"} /\ ~s.attached
               /\ Was(s) \in DOMAIN bag
              THEN bag[Was(s)] ELSE 0)]

\* pickMode without the test of CONFIG.allowHexCapsules.
pickModeAll(cfg) == {"json", "inline", "hex"}

\* pickMode
pickMode(cfg) == IF cfg.allowHexCapsules THEN {"json", "inline", "hex"} ELSE {"json", "inline"}

\* return document.createElement('div'): the pool is not consulted.
getNodeAlwaysNew(S) ==
  [node |-> Len(S.nodes) + 1, S |-> [S EXCEPT !.nodes = Append(@, NewNode)]]

\* getNode: n = this.pool.pop(); return n || document.createElement('div')
getNode(S) ==
  IF S.capsules.pool # <<>>
    THEN [node |-> S.capsules.pool[Len(S.capsules.pool)],
          S |-> [S EXCEPT !.capsules.pool = SubSeq(@, 1, Len(@) - 1)]]
    ELSE [node |-> Len(S.nodes) + 1,
          S |-> [S EXCEPT !.nodes = Append(@, NewNode)]]

\* releaseNode: node.remove(); this.pool.push(node)
releaseNode(S, n) ==
  [S EXCEPT !.nodes[n].inDom = FALSE, !.capsules.pool = Append(@, n)]

\* dissolve without its requestAnimationFrame(jitter).
dissolveNoFrame(S, n) == S

\* dissolve(node): reads the clock and the position, requests the first jitter frame.
dissolve(S, n) ==
  [S EXCEPT !.timers = Schedule(@, Callback("jitter", n))]

\* pulseHighlights(container), called with the content <div> of node n.  An
\* empty content <div> has no child nodes.  The result says whether the call
\* threw (container.parentElement is null for a detached <div>).
pulseHighlights(S, n, text, attached) ==
  IF text # <<>> THEN [S |-> S, threw |-> FALSE]
  ELSE IF ~attached THEN [S |-> S, threw |-> TRUE]
  ELSE [S |-> [S EXCEPT !.nodes[n].filter = "brightness(1.5)",
                        !.timers = Schedule(@, [Callback("pulse", n) EXCEPT
                                                  !.original = S.nodes[n].filter])],
        threw |-> FALSE]

\* A completion callback that starts the dissolve at once and after the hold:
\* this.dissolve(node); setTimeout(() => this.dissolve(node), ...)
TypingDoneDissolveTwice(S, n, text, attached) ==
  LET S0 == [S EXCEPT !.nodes[n].doneCalls = @ + 1]
  IN  [S0 EXCEPT !.nodes[n].opacity = 1000,
                 !.timers = Schedule(Schedule(@, Callback("jitter", n)), Callback("hold", n))]

\* The completion callback spawnRandom passes to typeText.
TypingDone(S, n, text, attached) ==
  LET S0 == [S EXCEPT !.nodes[n].doneCalls = @ + 1]
      p  == pulseHighlights(S0, n, text, attached)
  IN  IF p.threw THEN p.S
      ELSE [p.S EXCEPT !.nodes[n].opacity = 1000,
                       !.timers = Schedule(@, Callback("hold", n))]

\* take = Math.max(1, Math.floor(0.016 / secondsPerChar))
Take(spc) == Max(1, 16 \div spc)

\* container.textContent = chars[i]: the character replaces the text.
AppendCharOverwrite(node, ch) ==
  [node EXCEPT !.content = <<ch>>,
               !.fullCount = IF <<ch>> = node.fullText THEN @ + 1 ELSE @]

\* One append of the loop of step: container.textContent += chars[i].
AppendChar(node, ch) ==
  LET text == Append(node.content, ch)
  IN  [node EXCEPT !.content = text,
                   !.fullCount = IF text = node.fullText THEN @ + 1 ELSE @]

RECURSIVE AppendChars(_, _)
AppendChars(node, cs) ==
  IF cs = <<>> THEN node ELSE AppendChars(AppendChar(node, Head(cs)), Tail(cs))

\* step, the closure of typeText, run with closure variables c.
step(S, c) ==
  LET n     == c.node
      j     == Min(c.i + Take(c.spc), Len(c.chars))
      typed == SubSeq(c.chars, c.i + 1, j)
      S1    == IF c.attached
                 THEN [S EXCEPT !.nodes[n] = AppendChars(@, typed)] ELSE S
  IN  IF j < Len(c.chars)
        THEN [S1 EXCEPT !.timers = Schedule(@, [c EXCEPT !.i = j]),
                        !.capsules.typeTimer = "id"]
        ELSE TypingDone(S1, n, SubSeq(c.chars, 1, j), c.attached)

\* typeText that first cancels the timer the shared field refers to:
\* clearTimeout(this.typeTimer); a step of any capsule may be that timer.
typeTextClearTimer(S, n, fullText, spc) ==
  LET S0 == [S EXCEPT !.nodes[n].content = <<>>,
                      !.nodes[n].fullText = fullText,
                      !.nodes[n].doneCalls = 0,
                      !.nodes[n].fullCount = IF fullText = <<>> THEN 1 ELSE 0,
                      !.timers = [c \in {d \in DOMAIN @ : d.kind # "step"} |-> @[c]]]
  IN  step(S0, [Callback("step", n) EXCEPT !.chars = fullText, !.spc = spc])

\* typeText(container, fullText, secondsPerChar, done) on the content <div> of node n.
typeText(S, n, fullText, spc) ==
  LET S0 == [S EXCEPT !.nodes[n].content = <<>>,
                      !.nodes[n].fullText = fullText,
                      !.nodes[n].doneCalls = 0,
                      !.nodes[n].fullCount = IF fullText = <<>> THEN 1 ELSE 0]
  IN  step(S0, [Callback("step", n) EXCEPT !.chars = fullText, !.spc = spc])

\* spawnRandom up to this.active.add(node): the node and the manager with
\* the node shown.
showNode(S, mode) ==
  LET g == getNode(S)
      n == g.node
  IN  [node |-> n,
       S |-> [g.S EXCEPT !.nodes[n].className = mode,
                         !.nodes[n].opacity = 0,
                         !.nodes[n].content = <<>>,
                         !.nodes[n].inDom = TRUE,
                         !.timers = DetachAll(@, n),
                         !.capsules.active = @ \cup {n}]]

\* spawnRandom with its random draws: the mode pickMode chose and the speed.
spawnRandom(S, mode, spc) ==
  LET shown == showNode(S, mode)
  IN  typeText(shown.S, shown.node, BuildText(mode), spc)

\* tick without this.spawnAccumulator = 0.
tickNoReset(S, cfg, dt, thr, mode, spc) ==
  LET acc == S.capsules.spawnAccumulator + dt * cfg.capsuleRateScale
      S0  == [S EXCEPT !.capsules.spawnAccumulator = acc]
  IN  IF acc >= thr /\ Cardinality(S.capsules.active) < maxCapsules
        THEN spawnRandom(S0, mode, spc) ELSE S0

\* tick with the reset inside the cap test:
\* if (acc >= threshold && this.active.size < CONFIG.maxCapsules) { acc = 0; spawn }
tickResetOnSpawn(S, cfg, dt, thr, mode, spc) ==
  LET acc == S.capsules.spawnAccumulator + dt * cfg.capsuleRateScale
  IN  IF acc >= thr /\ Cardinality(S.capsules.active) < maxCapsules
        THEN spawnRandom([S EXCEPT !.capsules.spawnAccumulator = 0], mode, spc)
        ELSE [S EXCEPT !.capsules.spawnAccumulator = acc]

\* this.active.size <= CONFIG.maxCapsules
UnderCapOrAt(S) == Cardinality(S.capsules.active) <= maxCapsules

\* The spawn gate of tick: this.active.size < CONFIG.maxCapsules
UnderCap(S) == Cardinality(S.capsules.active) < maxCapsules

\* CapsuleManager.tick(dt) with its random draws.
CapsuleManager_tick(S, cfg, dt, thr, mode, spc) ==
  LET acc == S.capsules.spawnAccumulator + dt * cfg.capsuleRateScale
  IN  IF acc >= thr
        THEN LET S0 == [S EXCEPT !.capsules.spawnAccumulator = 0]
             IN  IF UnderCap(S0) THEN spawnRandom(S0, mode, spc) ELSE S0
        ELSE [S EXCEPT !.capsules.spawnAccumulator = acc]

\* jitter without this.active.delete(node).
jitterNoDelete(S, c, elapsed) ==
  IF elapsed >= duration
    THEN releaseNode(S, c.node)
    ELSE [S EXCEPT !.nodes[c.node].opacity = 1000 - (1000 * elapsed) \div duration,
                   !.nodes[c.node].transform = "translate3d",
                   !.timers = Schedule(@, [c EXCEPT !.t = elapsed])]

\* jitter without the return after releaseNode: the frame that pools the
\* node requests another one.
jitterNoReturn(S, c, elapsed) ==
  LET n  == c.node
      S0 == IF elapsed >= duration
              THEN releaseNode([S EXCEPT !.capsules.active = @ \ {n}], n) ELSE S
  IN  [S0 EXCEPT !.nodes[n].opacity = Max(0, 1000 - (1000 * elapsed) \div duration),
                 !.nodes[n].transform = "translate3d",
                 !.timers = Schedule(@, [c EXCEPT !.t = elapsed])]

\* jitter, the closure of dissolve, run elapsed ms after dissolve started.
jitter(S, c, elapsed) ==
  LET n == c.node
  IN  IF elapsed >= duration
        THEN releaseNode([S EXCEPT !.capsules.active = @ \ {n}], n)
        ELSE [S EXCEPT !.nodes[n].opacity = 1000 - (1000 * elapsed) \div duration,
                       !.nodes[n].transform = "translate3d",
                       !.timers = Schedule(@, [c EXCEPT !.t = elapsed])]

\* The reversion pulseHighlights scheduled: parentElement.style.filter = original.
pulseRevert(S, c) ==
  IF c.attached THEN [S EXCEPT !.nodes[c.node].filter = c.original] ELSE S

Now == [capsules |-> capsules, nodes |-> nodes, timers |-> timers]
Becomes(S) == capsules' = S.capsules /\ nodes' = S.nodes /\ timers' = S.timers

(***************************************************************************)
(* Profile factory.  Math.random() is k / RandDenom.                       *)
(***************************************************************************)
RandDenom == 1000
RandDraws == {0, 499, 500, 999}

industries == {"Finance", "Healthcare", "Tech", "Education", "Retail", "Energy",
               "Gaming", "Media", "Gov", "Aerospace"}

emotional == << <<"focused", 3>>, <<"stressed", 2>>, <<"curious", 3>>, <<"flow", 2>>,
                <<"burnout", 1>>, <<"optimistic", 2>>, <<"calm", 2>>, <<"distracted", 1>> >>

\* The table of sampleIncome, with its fallback.
IncomeRange(industry) ==
  CASE industry = "Tech" -> <<80000, 220000>>
    [] industry = "Finance" -> <<70000, 250000>>
    [] industry = "Healthcare" -> <<50000, 180000>>
    [] industry = "Education" -> <<35000, 120000>>
    [] industry = "Retail" -> <<30000, 90000>>
    [] industry = "Energy" -> <<60000, 200000>>
    [] industry = "Gaming" -> <<45000, 150000>>
    [] industry = "Media" -> <<40000, 140000>>
    [] industry = "Gov" -> <<40000, 120000>>
    [] industry = "Aerospace" -> <<70000, 210000>>
    [] OTHER -> <<40000, 120000>>

moodBias(mood) ==
  CASE mood = "burnout" -> 15
    [] mood = "stressed" -> 10
    [] mood = "distracted" -> 8
    [] mood = "focused" -> 0 - 5
    [] mood = "calm" -> 0 - 5
    [] mood = "flow" -> 0 - 8
    [] mood = "optimistic" -> 0 - 3
    [] OTHER -> 0

\* rand(min, max) * RandDenom for Math.random() = k / RandDenom.
rand(min, max, k) == min * RandDenom + k * (max - min)

\* Math.round(x / den) = floor(x / den + 0.5)
RoundDiv(x, den) == (2 * x + den) \div (2 * den)

clamp(v, a, b) == IF v < a THEN a ELSE IF v > b THEN b ELSE v

RECURSIVE PairsTotal(_)
PairsTotal(pairs) == IF pairs = <<>> THEN 0 ELSE Head(pairs)[2] + PairsTotal(Tail(pairs))

\* weightedChoice with roll = Math.random() * total, given times RandDenom.
RECURSIVE weightedChoice(_, _)
weightedChoice(pairs, roll) ==
  IF Len(pairs) = 1 THEN pairs[1][1]
  ELSE IF roll - pairs[1][2] * RandDenom <= 0 THEN pairs[1][1]
  ELSE weightedChoice(Tail(pairs), roll - pairs[1][2] * RandDenom)

\* sampleIncome: Math.round(rand(base[0], base[1]) / 1000) * 1000
sampleIncome(industry, k) ==
  LET base == IncomeRange(industry)
  IN  RoundDiv(rand(base[1], base[2], k), 1000 * RandDenom) * 1000

\* riskFromIncomeAndMood returning Math.round(r) without the clamp.
riskUnclamped(income, mood, k) ==
  LET r0 == rand(10, 90, k)
      r1 == IF income > 150000 THEN r0 - 10 * RandDenom ELSE r0
      r2 == IF income < 40000 THEN r1 + 10 * RandDenom ELSE r1
  IN  RoundDiv(r2 + moodBias(mood) * RandDenom, RandDenom)

\* riskFromIncomeAndMood
riskFromIncomeAndMood(income, mood, k) ==
  LET r0 == rand(10, 90, k)
      r1 == IF income > 150000 THEN r0 - 10 * RandDenom ELSE r0
      r2 == IF income < 40000 THEN r1 + 10 * RandDenom ELSE r1
      r3 == r2 + moodBias(mood) * RandDenom
  IN  clamp(RoundDiv(r3, RandDenom), 0, 100)

\* generate: the fields the claims read.
generate(ind, kMood, kInc, kRisk) ==
  LET mood == weightedChoice(emotional, kMood * PairsTotal(emotional))
      inc  == sampleIncome(ind, kInc)
  IN  [industry |-> ind, emotional_state |-> mood, income_usd |-> inc,
       risk_score |-> riskFromIncomeAndMood(inc, mood, kRisk)]

\* Math.random() values that reach every entry of `emotional`.
MoodDraws == {0, 200, 350, 500, 640, 700, 800, 930, 999}

(***************************************************************************)
(* Text.  A string is the sequence of its characters; a Number that is an  *)
(* integer is its sign and the decimal digits of its magnitude, most       *)
(* significant first, so that magnitudes beyond the machine's integers can *)
(* be written.  The sampled magnitudes are ones the engine holds exactly   *)
(* and prints digit for digit.                                             *)
(***************************************************************************)
DigitChars == <<"0", "1", "2", "3", "4", "5", "6", "7", "8", "9">>
IsDigit(ch) == \E d \in DOMAIN DigitChars : DigitChars[d] = ch
\* \w of a regular expression, over the characters that occur.
IsWord(ch) == IsDigit(ch) \/ ch \in {"e", "_"}

RECURSIVE Digits(_)
Digits(n) == IF n < 10 THEN <<n>> ELSE Digits(n \div 10) \o <<n % 10>>

\* The Number with integer value i.
NumberOf(i) == [neg |-> i < 0, digits |-> Digits(IF i < 0 THEN 0 - i ELSE i)]

\* Number.prototype.toString switches to exponent notation at 10^21.
ExponentFrom == 21

RECURSIVE StripZeros(_)
StripZeros(ds) ==
  IF Len(ds) > 1 /\ ds[Len(ds)] = 0 THEN StripZeros(SubSeq(ds, 1, Len(ds) - 1)) ELSE ds

DigitText(ds) == [i \in DOMAIN ds |-> DigitChars[ds[i] + 1]]

\* x.toString() for a non-negative integer Number x with digits ds.
NumberToString(ds) ==
  IF Len(ds) <= ExponentFrom THEN DigitText(ds)
  ELSE LET m == StripZeros(ds)
       IN  DigitText(<<m[1]>>)
             \o (IF Len(m) > 1 THEN <<".">> \o DigitText(Tail(m)) ELSE <<>>)
             \o <<"e", "+">> \o DigitText(Digits(Len(ds) - 1))

\* The number of digits of s from index i on, up to the first non-digit.
RECURSIVE DigitRun(_, _)
DigitRun(s, i) == IF i > Len(s) \/ ~IsDigit(s[i]) THEN 0 ELSE 1 + DigitRun(s, i + 1)

\* /\B(?=(\d{3})+)/: the lookahead does not ask for the end of the digits.
CommaAtNoEnd(s, i) ==
  IsWord(s[i]) = IsWord(s[i + 1]) /\ DigitRun(s, i + 1) >= 3

\* Whether /\B(?=(\d{3})+(?!\d))/ matches between s[i] and s[i + 1].
CommaAt(s, i) ==
  /\ IsWord(s[i]) = IsWord(s[i + 1])
  /\ DigitRun(s, i + 1) >= 3
  /\ DigitRun(s, i + 1) % 3 = 0

\* s.replace(/\B(?=(\d{3})+(?!\d))/g, ','), from index i on.
RECURSIVE InsertCommas(_, _)
InsertCommas(s, i) ==
  IF i > Len(s) THEN <<>>
  ELSE <<s[i]>> \o (IF i < Len(s) /\ CommaAt(s, i) THEN <<",">> ELSE <<>>)
         \o InsertCommas(s, i + 1)

\* formatMoneyUSD(n) for an integer n: Math.round leaves it, Math.abs drops
\* the sign.
formatMoneyUSD(n) ==
  (IF n.neg THEN <<"-">> ELSE <<>>) \o <<"$">> \o InsertCommas(NumberToString(n.digits), 1)

\* `${n}` for an integer Number n.
NumberText(n) == (IF n.neg THEN <<"-">> ELSE <<>>) \o NumberToString(n.digits)

\* parts.join(sep)
RECURSIVE Join(_, _)
Join(parts, sep) ==
  IF parts = <<>> THEN <<>>
  ELSE IF Len(parts) = 1 THEN parts[1]
  ELSE parts[1] \o sep \o Join(Tail(parts), sep)

\* The inline text with income=${profile.income_usd}: the amount as it is.
InlineTextRawIncome(p) ==
  Join(<< <<"i", "d", "=">> \o p.id,
          <<"a", "g", "e", "=">> \o NumberText(NumberOf(p.age)),
          <<"j", "o", "b", "=">> \o p.job_title,
          <<"e", "m", "o", "t", "i", "o", "n", "a", "l", "=">> \o p.emotional_state,
          <<"i", "n", "c", "o", "m", "e", "=">> \o NumberText(NumberOf(p.income_usd)),
          <<"r", "i", "s", "k", "=">> \o NumberText(NumberOf(p.risk_score)) >>,
       <<" ", "|", " ">>)

\* The text of spawnRandom in mode "inline".
InlineText(p) ==
  Join(<< <<"i", "d", "=">> \o p.id,
          <<"a", "g", "e", "=">> \o NumberText(NumberOf(p.age)),
          <<"j", "o", "b", "=">> \o p.job_title,
          <<"e", "m", "o", "t", "i", "o", "n", "a", "l", "=">> \o p.emotional_state,
          <<"i", "n", "c", "o", "m", "e", "=">> \o formatMoneyUSD(NumberOf(p.income_usd)),
          <<"r", "i", "s", "k", "=">> \o NumberText(NumberOf(p.risk_score)) >>,
       <<" ", "|", " ">>)

\* Sampled arguments.  Integers the machine holds, and the powers of ten up
\* to 10^MaxPow, with either sign.
MaxPow == 21
MoneyInts == {0, 1, 7, 12, 99, 100, 999, 1000, 1234, 9999, 10000, 95000, 99999,
              100000, 250000, 999999, 1000000, 1234567, 123456789}
MoneyNumbers ==
  {NumberOf(i) : i \in MoneyInts} \cup {NumberOf(0 - i) : i \in MoneyInts}
    \cup {[neg |-> b, digits |-> <<1>> \o [j \in 1..k |-> 0]] : b \in BOOLEAN, k \in 0..MaxPow}

InlineProfiles ==
  [id : {<<"x", "1", "-", "a", "b", "c", "d">>},
   age : {18, 30, 69},
   job_title : {<<"E", "n", "g", "i", "n", "e", "e", "r">>, <<"P", "M">>},
   emotional_state : {<<"c", "a", "l", "m">>, <<"f", "l", "o", "w">>},
   income_usd : {30000, 95000, 250000},
   risk_score : {0, 40, 100}]

NoFrame == [count |-> 0, calls |-> <<>>, dt |-> 0, acc |-> 0, thr |-> 0, size |-> 0]

(***************************************************************************)
(* Initial state: the page after its bootstrap (lines 535-565).            *)
(***************************************************************************)
\* CONFIG, the canvas and new MatrixRain(ctx).
InitPage ==
  /\ CONFIG = [densityScale |-> 10, speedScale |-> 10, capsuleRateScale |-> 10,
               allowHexCapsules |-> TRUE]
  /\ clientWidth \in Widths
  /\ clientHeight \in Heights
  /\ \E ds \in ColumnDraws(clientHeight) :
       rain = resetColumns(clientWidth, clientHeight, CONFIG, ds)
  /\ lastOp = [op |-> "resetColumns", dt |-> 0, recycled |-> {}]
  /\ profile = <<>>
  /\ rendered = <<>>
  /\ frame = NoFrame

\* new CapsuleManager(container), with no callback pending.
NewManager ==
  [capsules |-> [pool |-> <<>>, active |-> {}, spawnAccumulator |-> 0, typeTimer |-> ""],
   nodes |-> <<>>,
   timers |-> EmptyBag]

Starts(S) == capsules = S.capsules /\ nodes = S.nodes /\ timers = S.timers

Init == InitPage /\ Starts(NewManager)

(***************************************************************************)
(* Handlers.                                                               *)
(***************************************************************************)
\* tick: dt = Math.min(0.05, (t - last) / 1000)
FrameDt(gap) == Min(MaxDtMs, gap)

\* The rain's part of a frame: rain.update(dt); rain.draw() paints only.
RainFrame ==
  /\ \E gap \in FrameGaps : update(FrameDt(gap))
  /\ UNCHANGED <<CONFIG, clientWidth, clientHeight, capsuleVars, profile, rendered, frame>>

\* The capsule manager's part of a frame: capsules.tick(dt).
CapsuleFrame ==
  /\ \E gap \in FrameGaps, thr \in Thresholds, mode \in pickMode(CONFIG), spc \in SpawnSpc :
       Becomes(CapsuleManager_tick(Now, CONFIG, FrameDt(gap), thr, mode, spc))
  /\ UNCHANGED <<CONFIG, clientWidth, clientHeight, rainVars, profile, rendered, frame>>

\* tick, the whole frame.
tick ==
  /\ \E gap \in FrameGaps, thr \in Thresholds, mode \in pickMode(CONFIG), spc \in SpawnSpc :
       /\ update(FrameDt(gap))
       /\ Becomes(CapsuleManager_tick(Now, CONFIG, FrameDt(gap), thr, mode, spc))
  /\ UNCHANGED <<CONFIG, clientWidth, clientHeight, profile, rendered, frame>>

\* tick statement by statement.  frame.calls lists the calls the running
\* frame callback has made; the callback has returned when all are made.
\* A listed order that starts with the draw.
FrameCallsDrawFirst == <<"rain.draw", "rain.update", "capsules.tick">>

FrameCalls == <<"rain.update", "rain.draw", "capsules.tick">>

Idle == Len(frame.calls) \in {0, Len(FrameCalls)}

NextCall == FrameCalls[IF Idle THEN 1 ELSE Len(frame.calls) + 1]

\* The frame a statement runs in: a new one, its dt computed on entry, when
\* no callback is running.
Started(gap) ==
  IF Idle THEN [count |-> frame.count + 1, calls |-> <<>>, dt |-> FrameDt(gap),
                acc |-> 0, thr |-> 0, size |-> 0]
  ELSE frame

MaxFrames == 8

tick_update ==
  /\ NextCall = "rain.update"
  /\ Idle => frame.count < MaxFrames
  /\ \E gap \in FrameGaps :
       /\ update(Started(gap).dt)
       /\ frame' = [Started(gap) EXCEPT !.calls = Append(@, "rain.update")]
  /\ UNCHANGED <<CONFIG, clientWidth, clientHeight, capsuleVars, profile, rendered>>

\* rain.draw paints; it writes no field the logic reads.
tick_draw ==
  /\ NextCall = "rain.draw"
  /\ Idle => frame.count < MaxFrames
  /\ \E gap \in FrameGaps :
       frame' = [Started(gap) EXCEPT !.calls = Append(@, "rain.draw")]
  /\ UNCHANGED <<CONFIG, clientWidth, clientHeight, rainVars, capsuleVars, profile, rendered>>

\* capsules.tick(dt); frame keeps the accumulator and the active count the
\* call found and the threshold it drew.
tick_capsules ==
  /\ NextCall = "capsules.tick"
  /\ Idle => frame.count < MaxFrames
  /\ \E gap \in FrameGaps, thr \in Thresholds, mode \in pickMode(CONFIG), spc \in SpawnSpc :
       /\ Becomes(CapsuleManager_tick(Now, CONFIG, Started(gap).dt, thr, mode, spc))
       /\ frame' = [Started(gap) EXCEPT !.calls = Append(@, "capsules.tick"),
                                        !.acc = capsules.spawnAccumulator,
                                        !.thr = thr,
                                        !.size = Cardinality(capsules.active)]
  /\ UNCHANGED <<CONFIG, clientWidth, clientHeight, rainVars, profile, rendered>>

\* capsules.tick(dt) of a frame, on its own; frame keeps what the call found
\* and drew.
CapsuleFrameSeen ==
  /\ \E gap \in FrameGaps, thr \in Thresholds, mode \in pickMode(CONFIG), spc \in SpawnSpc :
       /\ Becomes(CapsuleManager_tick(Now, CONFIG, FrameDt(gap), thr, mode, spc))
       /\ frame' = [NoFrame EXCEPT !.dt = FrameDt(gap),
                                   !.acc = capsules.spawnAccumulator,
                                   !.thr = thr,
                                   !.size = Cardinality(capsules.active)]
  /\ UNCHANGED <<CONFIG, clientWidth, clientHeight, rainVars, profile, rendered>>

Fired(c) == [Now EXCEPT !.timers = Cancel(@, c)]

\* The pending callbacks of one kind that belong to node n.
TimersOf(kind, n) == {c \in Pending : c.kind = kind /\ c.node = n}

StepTimerOf(n) ==
  /\ \E c \in TimersOf("step", n) : Becomes(step(Fired(c), c))
  /\ UNCHANGED <<CONFIG, clientWidth, clientHeight, rainVars, profile, rendered, frame>>

StepTimer == \E n \in DOMAIN nodes : StepTimerOf(n)

HoldTimerOf(n) ==
  /\ \E c \in TimersOf("hold", n) : Becomes(dissolve(Fired(c), n))
  /\ UNCHANGED <<CONFIG, clientWidth, clientHeight, rainVars, profile, rendered, frame>>

HoldTimer == \E n \in DOMAIN nodes : HoldTimerOf(n)

\* The clock does not run backwards: elapsed is at least the last reading.
JitterFrameOf(n) ==
  /\ \E c \in TimersOf("jitter", n), e \in ElapsedSamples :
       e >= c.t /\ Becomes(jitter(Fired(c), c, e))
  /\ UNCHANGED <<CONFIG, clientWidth, clientHeight, rainVars, profile, rendered, frame>>

JitterFrame == \E n \in DOMAIN nodes : JitterFrameOf(n)

PulseTimerOf(n) ==
  /\ \E c \in TimersOf("pulse", n) : Becomes(pulseRevert(Fired(c), c))
  /\ UNCHANGED <<CONFIG, clientWidth, clientHeight, rainVars, profile, rendered, frame>>

PulseTimer == \E n \in DOMAIN nodes : PulseTimerOf(n)

\* UI.bind: the listeners that write fields the logic reads.
OnDensity ==
  /\ \E v \in DensityValues, ds \in ColumnDraws(clientHeight) :
       /\ CONFIG' = [CONFIG EXCEPT !.densityScale = v]
       /\ rain' = resetColumns(clientWidth, clientHeight, CONFIG', ds)
  /\ lastOp' = [op |-> "resetColumns", dt |-> 0, recycled |-> {}]
  /\ UNCHANGED <<clientWidth, clientHeight, capsuleVars, profile, rendered, frame>>

OnSpeed ==
  /\ \E v \in SpeedValues : CONFIG' = [CONFIG EXCEPT !.speedScale = v]
  /\ lastOp' = [op |-> "speed", dt |-> 0, recycled |-> {}]
  /\ UNCHANGED <<clientWidth, clientHeight, rain, capsuleVars, profile, rendered, frame>>

OnCapsuleRate ==
  /\ \E v \in RateValues : CONFIG' = [CONFIG EXCEPT !.capsuleRateScale = v]
  /\ UNCHANGED <<clientWidth, clientHeight, rainVars, capsuleVars, profile, rendered, frame>>

OnShowHex ==
  /\ \E b \in BOOLEAN : CONFIG' = [CONFIG EXCEPT !.allowHexCapsules = b]
  /\ UNCHANGED <<clientWidth, clientHeight, rainVars, capsuleVars, profile, rendered, frame>>

\* resizeCanvas: the canvas takes the window's size.
resizeCanvasTo(heights) ==
  /\ \E w \in Widths, h \in heights : clientWidth' = w /\ clientHeight' = h
  /\ lastOp' = [op |-> "resizeCanvas", dt |-> 0, recycled |-> {}]
  /\ UNCHANGED <<CONFIG, rain, capsuleVars, profile, rendered, frame>>

resizeCanvas == resizeCanvasTo(Heights)

\* The call of ProfileFactory.generate under check.
Generate ==
  /\ profile = <<>>
  /\ \E ind \in industries, kMood \in MoodDraws, kInc \in RandDraws, kRisk \in RandDraws :
       profile' = <<generate(ind, kMood, kInc, kRisk)>>
  /\ UNCHANGED <<CONFIG, clientWidth, clientHeight, rainVars, capsuleVars, rendered, frame>>

(***************************************************************************)
(* Specifications.  The rain field and the capsule manager share no state  *)
(* (each reads its own fields of CONFIG), so each is checked on its own    *)
(* part of the frame; Spec is the whole page.                              *)
(***************************************************************************)
NextRain == RainFrame \/ OnDensity \/ OnSpeed \/ resizeCanvas
SpecRain == Init /\ [][NextRain]_vars

\* The rain field in a window that can also collapse to no height.
NextRecycle == RainFrame \/ resizeCanvasTo(Heights \cup FlatHeights)
SpecRecycle == Init /\ [][NextRecycle]_vars

NextCapsules ==
  CapsuleFrame \/ StepTimer \/ HoldTimer \/ JitterFrame \/ OnCapsuleRate \/ OnShowHex
\* The rain field does not move in the capsule manager's specifications: one
\* viewport and one placement of the columns.
RainAtRest ==
  /\ clientWidth = 800 /\ clientHeight = 40
  /\ lastOp = [op |-> "resetColumns", dt |-> 0, recycled |-> {}]
  /\ CONFIG.densityScale = 10 /\ CONFIG.speedScale = 10
  /\ rain.columns[1].y = 0 - YUnit
InitCapsules == Init /\ RainAtRest
SpecCapsules == InitCapsules /\ [][NextCapsules]_vars

\* The event loop runs every pending callback of every capsule: its
\* typewriter timer, its hold timer and its animation frame, whose clock
\* reading eventually passes the dissolve's duration.  Frames and listeners
\* stay free to run or not.
FairCapsules ==
  /\ SpecCapsules
  /\ \A n \in 1..maxCapsules :
       WF_vars(StepTimerOf(n)) /\ WF_vars(HoldTimerOf(n)) /\ WF_vars(JitterFrameOf(n))

\* typeText on the content <div> of a capsule just shown, for any text and
\* speed, and the callbacks that follow from it.
MaxTextLen == 4
Texts == UNION {[1..len -> {"a", "b"}] : len \in 0..MaxTextLen}
\* secondsPerChar in ms: step takes 3, 2 and 1 characters.
TypeSpc == {5, 8, 40}

InitType ==
  /\ InitPage /\ RainAtRest
  /\ \E text \in Texts, spc \in TypeSpc :
       Starts(typeText(showNode(NewManager, "json").S, 1, text, spc))

NextType == StepTimer \/ PulseTimer \/ HoldTimer \/ JitterFrame
SpecType == InitType /\ [][NextType]_vars

\* Two capsules typing at once: the second was spawned while the first still
\* waited for its next step.  The texts have the two greatest lengths.
InitTwoTyping ==
  /\ InitPage /\ RainAtRest
  /\ \E t1 \in {t \in Texts : Len(t) = MaxTextLen},
        t2 \in {t \in Texts : Len(t) = MaxTextLen - 1},
        spc1 \in TypeSpc, spc2 \in TypeSpc :
       Starts(typeText(showNode(typeText(showNode(NewManager, "json").S, 1, t1, spc1),
                                "inline").S,
                       2, t2, spc2))

NextTwoTyping == StepTimer \/ HoldTimer \/ JitterFrame
SpecTwoTyping == InitTwoTyping /\ [][NextTwoTyping]_vars

\* The page with one of its two components running: the rain field moves
\* while the capsule manager is as constructed, the capsule manager runs
\* while the rain field is at rest.  The handlers of the two components read
\* and write disjoint fields, so a state of the page is a state of the one
\* paired with a state of the other.
ManagerAtRest ==
  /\ Starts(NewManager)
  /\ CONFIG.capsuleRateScale = 10 /\ CONFIG.allowHexCapsules

NextResources ==
  \/ ManagerAtRest /\ RainFrame
  \/ ManagerAtRest /\ OnDensity
  \/ ManagerAtRest /\ OnSpeed
  \/ ManagerAtRest /\ resizeCanvas
  \/ RainAtRest /\ CapsuleFrame
  \/ RainAtRest /\ StepTimer
  \/ RainAtRest /\ HoldTimer
  \/ RainAtRest /\ JitterFrame
  \/ RainAtRest /\ OnCapsuleRate
  \/ RainAtRest /\ OnShowHex
SpecResources == Init /\ [][NextResources]_vars

\* One call of a text builder, recorded with its argument.
Format ==
  /\ rendered = <<>>
  /\ \E n \in MoneyNumbers :
       rendered' = <<[call |-> "formatMoneyUSD", arg |-> n, text |-> formatMoneyUSD(n)]>>
  /\ UNCHANGED <<CONFIG, clientWidth, clientHeight, rainVars, capsuleVars, profile, frame>>

RenderInline ==
  /\ rendered = <<>>
  /\ \E p \in InlineProfiles :
       rendered' = <<[call |-> "inline", arg |-> p, text |-> InlineText(p)]>>
  /\ UNCHANGED <<CONFIG, clientWidth, clientHeight, rainVars, capsuleVars, profile, frame>>

\* The frame callback statement by statement, with the capsule callbacks and
\* the rate listener; a callback starts only when no other is running.
NextFrame ==
  \/ tick_update
  \/ tick_draw
  \/ tick_capsules
  \/ Idle /\ StepTimer
  \/ Idle /\ HoldTimer
  \/ Idle /\ JitterFrame
  \/ Idle /\ OnCapsuleRate

SpecFrame == InitCapsules /\ [][NextFrame]_vars

\* The spawn gate with what each capsules.tick found.
NextGate == CapsuleFrameSeen \/ StepTimer \/ HoldTimer \/ JitterFrame
SpecGate == InitCapsules /\ [][NextGate]_vars

NextFormat == Format \/ RenderInline
SpecFormat == InitCapsules /\ [][NextFormat]_vars

NextProfile == Generate
SpecProfile == InitCapsules /\ [][NextProfile]_vars

Next ==
  \/ tick \/ StepTimer \/ HoldTimer \/ JitterFrame \/ PulseTimer
  \/ OnDensity \/ OnSpeed \/ OnCapsuleRate \/ OnShowHex \/ resizeCanvas
Spec == Init /\ [][Next]_vars

(***************************************************************************)
(* Claims about the rain field, checked under SpecRain.                    *)
(***************************************************************************)
\* The handlers after which the column count is the one computed from the
\* current viewport and density.
RainOps == {"resetColumns", "rebuild", "update"}

\* max(8, floor((width / 16) * 0.7 * densityScale)) in exact arithmetic.
ExactCols(w, densityScale) ==
  Max(MinColumns, (w * BaseDensityTenths * densityScale) \div (glyphSize * 10 * 10))

\* C7: after resetColumns and after every call of update, columnCount and the
\* length of columns equal max(8, floor((width / 16) * 0.7 * densityScale)),
\* and resetColumns and update's change detection compute the same value.
C7_ColumnCountFormula ==
  lastOp.op \in RainOps =>
    /\ rain.columnCount = ExactCols(clientWidth, CONFIG.densityScale)
    /\ Len(rain.columns) = rain.columnCount
    /\ ColumnCounts[clientWidth, CONFIG.densityScale].numCols
         = ColumnCounts[clientWidth, CONFIG.densityScale].desiredCols

\* The scenario of C7: width 800 at densityScale 1.0 gives 35 columns, on
\* both paths.
C7_Scenario ==
  /\ clientWidth = 800 /\ CONFIG.densityScale = 10 /\ lastOp.op = "update"
  /\ rain.columnCount = 35 /\ ColumnCounts[800, 10].desiredCols = 35

\* speed * speedScale * dt for column i in the frame that ends a step.
Delta(i) == rain.columns[i].speed * CONFIG.speedScale * lastOp'.dt

\* C8 as amended: in every frame in which update moves the columns, a column
\* that is not recycled has its y increased by exactly speed * speedScale *
\* dt, which is a strict increase when dt > 0; a frame with dt = 0 (two
\* frames within one reading of the clock) leaves y as it is.
C8_AdvanceExact ==
  [][lastOp'.op = "update" =>
       /\ DOMAIN rain'.columns = DOMAIN rain.columns
       /\ \A i \in DOMAIN rain.columns \ lastOp'.recycled :
            /\ rain'.columns[i].y = rain.columns[i].y + Delta(i)
            /\ lastOp'.dt > 0 => rain'.columns[i].y > rain.columns[i].y
            /\ lastOp'.dt = 0 => rain'.columns[i].y = rain.columns[i].y]_vars

\* C8 as stated: every frame strictly increases the y of a column that is
\* not recycled, by exactly speed * speedScale * dt.
C8_StrictIncrease ==
  [][lastOp'.op = "update" =>
       \A i \in DOMAIN rain.columns \ lastOp'.recycled :
         /\ rain'.columns[i].y = rain.columns[i].y + Delta(i)
         /\ rain'.columns[i].y > rain.columns[i].y]_vars

\* A frame with dt > 0 that recycled some columns and advanced the others.
C8_Witness ==
  /\ lastOp.op = "update" /\ lastOp.dt > 0
  /\ lastOp.recycled # {} /\ lastOp.recycled # DOMAIN rain.columns
  /\ \E i \in DOMAIN rain.columns \ lastOp.recycled : rain.columns[i].y > 0

(***************************************************************************)
(* Claims about the capsule manager.                                       *)
(***************************************************************************)
Front(s) == SubSeq(s, 1, Len(s) - 1)
IsPrefix(a, b) == Len(a) <= Len(b) /\ a = SubSeq(b, 1, Len(a))
Spawned == capsules'.active \ capsules.active
Released == capsules.active \ capsules'.active

\* C1: tick calls spawnRandom only when active.size is strictly below
\* maxCapsules, so the active set never holds more than maxCapsules capsules.
C1_SpawnOnlyUnderCap ==
  /\ [](Cardinality(capsules.active) <= maxCapsules)
  /\ [][Spawned # {} => Cardinality(capsules.active) < maxCapsules]_vars

\* The active set is full and the spawn gate has just run.
C1_AtCap ==
  Cardinality(capsules.active) = maxCapsules /\ capsules.spawnAccumulator = 0

\* C2: a capsule whose dissolve completes leaves the active set and is pushed
\* onto the pool; a spawn that finds the pool non-empty takes the node on top
\* of the pool, and a node is created only when the pool is empty.
C2_PoolReuse ==
  [][/\ \A n \in Released :
          capsules'.pool = Append(capsules.pool, n) /\ ~nodes'[n].inDom
     /\ \A n \in Spawned :
          IF capsules.pool # <<>>
            THEN /\ n = capsules.pool[Len(capsules.pool)]
                 /\ capsules'.pool = Front(capsules.pool)
                 /\ Len(nodes') = Len(nodes)
            ELSE n = Len(nodes) + 1 /\ Len(nodes') = Len(nodes) + 1
     /\ Len(nodes') > Len(nodes) => capsules.pool = <<>>]_vars

\* A node that went through a dissolve (it carries the jitter's transform) is
\* active again and typing.
C2_Reused ==
  \E n \in capsules.active :
    TimersOf("step", n) # {} /\ nodes[n].transform = "translate3d"

\* C3: at the moment dissolve removes a node from the active set, the node's
\* opacity is 0.
C3_OpacityZeroAtRemoval ==
  [][\A n \in Released : nodes'[n].opacity = 0]_vars

\* C5: when spawnRandom reuses a node, everything the node's previous
\* lifecycle set is reset before the node is shown: class, content, opacity,
\* the transform written by dissolve and the filter written by
\* pulseHighlights.
C5_FullReset ==
  [][\A n \in Spawned :
       /\ nodes'[n].className \in Modes
       /\ IsPrefix(nodes'[n].content, BuildText(nodes'[n].className))
       /\ nodes'[n].opacity = 0
       /\ nodes'[n].transform = ""
       /\ nodes'[n].filter = ""]_vars

\* C6: every capsule in the active set eventually leaves it, given that its
\* timers and animation frames fire, whatever the UI handlers write to CONFIG
\* meanwhile; and a step that changes CONFIG leaves the active set and the
\* pending callbacks as they are.
C6_EventuallyDissolves ==
  /\ \A n \in 1..maxCapsules : (n \in capsules.active) ~> (n \notin capsules.active)
  /\ [][CONFIG' # CONFIG => capsules'.active = capsules.active /\ timers' = timers]_vars

\* A capsule has dissolved with the capsule rate and the hex switch both
\* changed from their defaults.
C6_DissolvedUnderChange ==
  /\ capsules.pool # <<>>
  /\ CONFIG.capsuleRateScale # 10 /\ ~CONFIG.allowHexCapsules

\* C4: the text typeText reveals never gets shorter, is always a prefix of
\* the full text, equals the full text after exactly one assignment, and done
\* is called exactly once, when no step is pending any more and the full text
\* is shown.
C4_Typewriter ==
  /\ [](\A n \in DOMAIN nodes :
          /\ IsPrefix(nodes[n].content, nodes[n].fullText)
          /\ nodes[n].fullCount <= 1
          /\ nodes[n].doneCalls = (IF TimersOf("step", n) = {} THEN 1 ELSE 0)
          /\ nodes[n].doneCalls = 1 =>
                nodes[n].content = nodes[n].fullText /\ nodes[n].fullCount = 1)
  /\ [][\A n \in DOMAIN nodes :
          /\ Len(nodes'[n].content) >= Len(nodes[n].content)
          /\ nodes'[n].doneCalls >= nodes[n].doneCalls]_vars

\* A text of the greatest length is shown in full and done has run.
C4_Typed ==
  \E n \in DOMAIN nodes :
    /\ Len(nodes[n].fullText) = MaxTextLen
    /\ nodes[n].content = nodes[n].fullText
    /\ nodes[n].doneCalls = 1

(***************************************************************************)
(* Claims about the profile factory and about the page's resources.        *)
(***************************************************************************)
\* C9: a generated profile has a risk_score in 0..100 and an income_usd that
\* is a multiple of 1000 within the closed range of its industry.
C9_ProfileRanges ==
  profile # <<>> =>
    /\ profile[1].risk_score \in 0..100
    /\ profile[1].income_usd % 1000 = 0
    /\ profile[1].income_usd >= IncomeRange(profile[1].industry)[1]
    /\ profile[1].income_usd <= IncomeRange(profile[1].industry)[2]

\* A profile at the top of its industry's range whose risk the clamp cut to 100.
C9_Extremes ==
  /\ profile # <<>>
  /\ profile[1].risk_score = 100
  /\ profile[1].income_usd = IncomeRange(profile[1].industry)[2]

\* What C10 says of the capsule manager: the active set and the pool are
\* disjoint, every node is active or pooled, once, and no more than
\* maxCapsules nodes were created.
ManagerBounded ==
  /\ \A i \in DOMAIN capsules.pool : capsules.pool[i] \notin capsules.active
  /\ Cardinality(capsules.active) + Len(capsules.pool) = Len(nodes)
  /\ capsules.active \cup {capsules.pool[i] : i \in DOMAIN capsules.pool} = DOMAIN nodes
  /\ Len(nodes) <= maxCapsules

RECURSIVE Grouped(_)
Grouped(ds) ==
  IF Len(ds) <= 3 THEN ds
  ELSE Grouped(SubSeq(ds, 1, Len(ds) - 3)) \o <<",">> \o SubSeq(ds, Len(ds) - 2, Len(ds))

\* '-' exactly when n < 0, then '$', then the grouped decimal digits of |n|.
MoneyText(n) ==
  (IF n.neg THEN <<"-">> ELSE <<>>) \o <<"$">> \o Grouped(DigitText(n.digits))

\* The two scenarios of C12.
MoneyScenarios ==
  /\ formatMoneyUSD(NumberOf(0 - 1234)) = <<"-", "$", "1", ",", "2", "3", "4">>
  /\ formatMoneyUSD(NumberOf(95000)) = <<"$", "9", "5", ",", "0", "0", "0">>

\* The profile of C11's scenario and the text it must give.
ScenarioProfile ==
  [id |-> <<"x", "1", "-", "a", "b", "c", "d">>, age |-> 30,
   job_title |-> <<"E", "n", "g", "i", "n", "e", "e", "r">>,
   emotional_state |-> <<"c", "a", "l", "m">>, income_usd |-> 95000, risk_score |-> 40]
ScenarioText ==
  <<"i", "d", "=", "x", "1", "-", "a", "b", "c", "d", " ", "|", " ",
    "a", "g", "e", "=", "3", "0", " ", "|", " ",
    "j", "o", "b", "=", "E", "n", "g", "i", "n", "e", "e", "r", " ", "|", " ",
    "e", "m", "o", "t", "i", "o", "n", "a", "l", "=", "c", "a", "l", "m", " ", "|", " ",
    "i", "n", "c", "o", "m", "e", "=", "$", "9", "5", ",", "0", "0", "0", " ", "|", " ",
    "r", "i", "s", "k", "=", "4", "0">>

\* C11: the inline text is the six pairs id, age, job, emotional, income,
\* risk in that order, joined by " | ", the income as formatMoneyUSD gives
\* it; the scenario's profile gives the scenario's text.
C11_InlineText ==
  \A i \in DOMAIN rendered :
    rendered[i].call = "inline" =>
      LET p == rendered[i].arg
      IN  /\ rendered[i].text =
                <<"i", "d", "=">> \o p.id \o <<" ", "|", " ">>
                  \o <<"a", "g", "e", "=">> \o DigitText(Digits(p.age)) \o <<" ", "|", " ">>
                  \o <<"j", "o", "b", "=">> \o p.job_title \o <<" ", "|", " ">>
                  \o <<"e", "m", "o", "t", "i", "o", "n", "a", "l", "=">>
                  \o p.emotional_state \o <<" ", "|", " ">>
                  \o <<"i", "n", "c", "o", "m", "e", "=">>
                  \o MoneyText(NumberOf(p.income_usd)) \o <<" ", "|", " ">>
                  \o <<"r", "i", "s", "k", "=">> \o DigitText(Digits(p.risk_score))
          /\ p = ScenarioProfile => rendered[i].text = ScenarioText

\* The scenario's profile has been rendered.
C11_ScenarioRendered ==
  \E i \in DOMAIN rendered :
    rendered[i].call = "inline" /\ rendered[i].arg = ScenarioProfile
      /\ rendered[i].text = ScenarioText

\* C12 as amended: for every integer n below 10^21 in magnitude that the
\* engine prints digit for digit, formatMoneyUSD(n) is '-' exactly when
\* n < 0, then '$', then the digits of |n| in groups of three from the right.
C12_MoneyFormat ==
  /\ MoneyScenarios
  /\ \A i \in DOMAIN rendered :
       rendered[i].call = "formatMoneyUSD" /\ Len(rendered[i].arg.digits) <= ExponentFrom =>
         rendered[i].text = MoneyText(rendered[i].arg)

\* C12 as stated: for every integer n.
C12_EveryInteger ==
  /\ MoneyScenarios
  /\ \A i \in DOMAIN rendered :
       rendered[i].call = "formatMoneyUSD" => rendered[i].text = MoneyText(rendered[i].arg)

\* A negative amount of seven digits has been formatted.
C12_Formatted ==
  \E i \in DOMAIN rendered :
    /\ rendered[i].call = "formatMoneyUSD"
    /\ rendered[i].arg = NumberOf(0 - 1234567)
    /\ rendered[i].text = <<"-", "$", "1", ",", "2", "3", "4", ",", "5", "6", "7">>

(***************************************************************************)
(* Claims about the frame callback, checked under SpecFrame and SpecGate.  *)
(***************************************************************************)
\* C13: within every frame callback the calls are rain.update, rain.draw,
\* capsules.tick in this order: the columns move only in the first, the
\* capsule manager changes only in the third, and no capsule timer or
\* animation callback (a step that is not the frame's) runs while the frame
\* callback is between its calls.
C13_FrameOrder ==
  /\ [](IsPrefix(frame.calls, <<"rain.update", "rain.draw", "capsules.tick">>))
  /\ [][/\ frame' # frame =>
             /\ (rainVars' # rainVars => frame'.calls = <<"rain.update">>)
             /\ (capsuleVars' # capsuleVars =>
                  frame'.calls = <<"rain.update", "rain.draw", "capsules.tick">>)
        /\ frame' = frame /\ capsuleVars' # capsuleVars =>
             Len(frame.calls) \in {0, 3}]_vars

\* A second frame has made its three calls, with a capsule typed out between
\* the frames.
C13_FramesAndCallbacks ==
  /\ frame.count >= 2
  /\ frame.calls = <<"rain.update", "rain.draw", "capsules.tick">>
  /\ \E n \in capsules.active : nodes[n].doneCalls = 1
  /\ lastOp.op = "update"

\* Whether the call of capsules.tick that frame records found the
\* accumulator, after its increment, at or above the threshold it drew.
Reached(f) == f.acc + f.dt * CONFIG.capsuleRateScale >= f.thr

\* C14: whenever the accumulator reaches the threshold in tick it is reset
\* to 0, whether or not a capsule is spawned; when the cap blocks the spawn,
\* the active set, the pool, the nodes and the pending callbacks are as they
\* were.  (A call that reaches the threshold always changes frame: the one
\* before it either reset the accumulator or drew another threshold or dt.)
C14_ResetAtThreshold ==
  [][frame' # frame /\ Reached(frame') =>
       /\ capsules'.spawnAccumulator = 0
       /\ (frame'.size >= maxCapsules =>
            /\ Spawned = {}
            /\ capsules'.active = capsules.active
            /\ capsules'.pool = capsules.pool
            /\ nodes' = nodes
            /\ timers' = timers)]_vars

\* The last capsules.tick reached its threshold with the active set full.
C14_Blocked ==
  /\ Reached(frame)
  /\ frame.size = maxCapsules
  /\ Cardinality(capsules.active) = maxCapsules
  /\ capsules.spawnAccumulator = 0

(***************************************************************************)
(* Claims about the life of a capsule, checked under SpecCapsules.         *)
(***************************************************************************)
\* The nodes whose typewriter signals completion in this step.
Completed == {n \in DOMAIN nodes : nodes'[n].doneCalls > nodes[n].doneCalls}

\* C15: every time the typewriter signals completion, the brightness pulse is
\* applied with its reversion pending, the panel's opacity is 1 and the
\* dissolution is scheduled.
C15_PulseOnCompletion ==
  [][\A n \in Completed :
       /\ nodes'[n].filter = "brightness(1.5)"
       /\ \E c \in BagToSet(timers') : c.kind = "pulse" /\ c.node = n
       /\ nodes'[n].opacity = 1000
       /\ \E c \in BagToSet(timers') : c.kind = "hold" /\ c.node = n]_vars

\* The pending callbacks of node n.
PendingOf(n) == {c \in Pending : c.node = n}

\* The phase of node n: pooled when it is not active, else the phase whose
\* callback it waits for.
Phase(n) ==
  IF n \notin capsules.active THEN "pooled"
  ELSE IF TimersOf("jitter", n) # {} THEN "dissolving"
  ELSE IF TimersOf("hold", n) # {} THEN "holding"
  ELSE "typing"

PhaseSteps ==
  {<<"typing", "holding">>, <<"holding", "dissolving">>,
   <<"dissolving", "pooled">>, <<"pooled", "typing">>}

\* C16: a capsule is in one phase at a time (an active node waits for exactly
\* one callback, a node that is not active is in the pool once and waits for
\* none) and the phases follow typing, holding, dissolving, pooled: the
\* dissolve starts only after the typewriter completed with the full text
\* shown, once per spawn, and a node enters the pool only from dissolving.
C16_PhaseOrder ==
  /\ [](\A n \in DOMAIN nodes :
          /\ n \notin capsules.active =>
               /\ PendingOf(n) = {}
               /\ Cardinality({i \in DOMAIN capsules.pool : capsules.pool[i] = n}) = 1
          /\ n \in capsules.active =>
               /\ \A i \in DOMAIN capsules.pool : capsules.pool[i] # n
               /\ \E c \in PendingOf(n) :
                    /\ PendingOf(n) = {c}
                    /\ timers[c] = 1
                    /\ c.kind \in {"step", "hold", "jitter"}
          /\ Phase(n) = "typing" => nodes[n].doneCalls = 0
          /\ Phase(n) \in {"holding", "dissolving"} =>
               nodes[n].doneCalls = 1 /\ nodes[n].content = nodes[n].fullText)
  /\ [][\A n \in DOMAIN nodes' :
          Phase(n)' # Phase(n) => <<Phase(n), Phase(n)'>> \in PhaseSteps]_vars

\* One node has gone through all its phases and is pooled while another
\* dissolves.
C16_AllPhases ==
  /\ capsules.pool # <<>>
  /\ \E n \in capsules.active : Phase(n) = "dissolving" /\ nodes[n].opacity < 1000

\* C17: a capsule spawned while CONFIG.allowHexCapsules is false never has
\* hex mode; while it is true, a spawn can choose each of json, inline, hex.
C17_HexOnlyWhenAllowed ==
  /\ [](CONFIG.allowHexCapsules => \A m \in {"json", "inline", "hex"} : m \in pickMode(CONFIG))
  /\ [][\A n \in Spawned :
          /\ nodes'[n].className \in {"json", "inline", "hex"}
          /\ ~CONFIG.allowHexCapsules => nodes'[n].className # "hex"]_vars

\* With hex switched off, a hex capsule from before is still active and a
\* capsule of another mode is typing.
C17_HexFromBefore ==
  /\ ~CONFIG.allowHexCapsules
  /\ \E n, m \in capsules.active :
       /\ nodes[n].className = "hex" /\ Phase(n) # "typing"
       /\ nodes[m].className # "hex" /\ Phase(m) = "typing"

(***************************************************************************)
(* Claims about recycling, checked under SpecRecycle.                      *)
(***************************************************************************)
\* The trailing edge of a column, y - streamLength * glyphSize, and the line
\* 20 px below the viewport, in units of y.
TrailingEdge(col) == col.y - col.streamLength * 16 * YUnit
BelowViewport == (clientHeight + 20) * YUnit

\* The columns whose trailing edge the advance of this update carries beyond
\* the line.
Passing ==
  {i \in DOMAIN rain.columns :
     TrailingEdge(rain.columns[i])
       + rain.columns[i].speed * CONFIG.speedScale * lastOp'.dt > BelowViewport}

\* C18 as amended: every column whose trailing edge an update carries beyond
\* viewportHeight + 20 is respawned in that update with y <= 0, and y < 0
\* when the viewport is at least 1 px high; after every update that does not
\* rebuild, no column's trailing edge lies beyond viewportHeight + 20.
C18_RecycledInFrame ==
  /\ [](lastOp.op = "update" =>
          \A i \in DOMAIN rain.columns : TrailingEdge(rain.columns[i]) <= BelowViewport)
  /\ [][lastOp'.op = "update" =>
          \A i \in Passing :
            /\ rain'.columns[i].y <= 0
            /\ clientHeight >= 1 => rain'.columns[i].y < 0]_vars

\* C18 as stated: the respawned column has y < 0.
C18_RecycledAboveTop ==
  /\ [](lastOp.op = "update" =>
          \A i \in DOMAIN rain.columns : TrailingEdge(rain.columns[i]) <= BelowViewport)
  /\ [][lastOp'.op = "update" => \A i \in Passing : rain'.columns[i].y < 0]_vars

\* An update has just recycled some columns, now above the top, and moved
\* the others.
C18_Recycled ==
  /\ lastOp.op = "update"
  /\ \E i \in lastOp.recycled : rain.columns[i].y < 0
  /\ \E i \in DOMAIN rain.columns : i \notin lastOp.recycled /\ rain.columns[i].y > 0

\* C19: the accumulator is always at least 0 and below 1.4 (14000 in its
\* unit), whatever dt in 0..50 ms and rate the frames had, and a single tick
\* spawns at most one capsule, leaving the accumulator 0.
C19_AccumulatorRange ==
  /\ [](0 <= capsules.spawnAccumulator /\ capsules.spawnAccumulator < 14000)
  /\ [][Cardinality(Spawned) <= 1 /\ (Spawned # {} => capsules'.spawnAccumulator = 0)]_vars

\* At the highest rate the accumulator has come within one frame of 1.4 with
\* a capsule on screen.
C19_NearTop ==
  /\ CONFIG.capsuleRateScale = 20
  /\ capsules.spawnAccumulator + 50 * 20 >= 14000
  /\ capsules.active # {}

(***************************************************************************)
(* Claims about concurrent typewriters, checked under SpecTwoTyping.       *)
(***************************************************************************)
\* How many step callbacks of node n are pending.
StepsPending(n) == Cardinality(TimersOf("step", n))

\* C20: with several capsules typing at once and their steps interleaved in
\* any order, each content only ever shows a prefix of its own text, which
\* never changes; each capsule has one step pending until its text is shown
\* in full; then its completion has fired exactly once, and never again.
C20_OwnTextOnce ==
  /\ [](\A n \in DOMAIN nodes :
          /\ IsPrefix(nodes[n].content, nodes[n].fullText)
          /\ StepsPending(n) <= 1 /\ \A c \in TimersOf("step", n) : timers[c] = 1
          /\ StepsPending(n) = 1 =>
               nodes[n].doneCalls = 0 /\ nodes[n].content # nodes[n].fullText
          /\ StepsPending(n) = 0 =>
               nodes[n].doneCalls = 1 /\ nodes[n].content = nodes[n].fullText)
  /\ [][\A n \in DOMAIN nodes :
          /\ nodes'[n].fullText = nodes[n].fullText
          /\ nodes'[n].doneCalls \in {nodes[n].doneCalls, nodes[n].doneCalls + 1}
          /\ nodes'[n].doneCalls <= 1]_vars

\* Both capsules type one character per step; timer steps of both have run,
\* each content shows the typed part of its own text, and each capsule waits
\* for a further step.
C20_Interleaved ==
  /\ Len(nodes) = 2
  /\ \E c \in TimersOf("step", 1), d \in TimersOf("step", 2) :
       /\ c.spc = 40 /\ c.i = MaxTextLen - 1
       /\ d.spc = 40 /\ d.i = MaxTextLen - 2
       /\ nodes[1].content = SubSeq(c.chars, 1, c.i)
       /\ nodes[2].content = SubSeq(d.chars, 1, d.i)
       /\ c.chars[1] # d.chars[1]
  /\ capsules.typeTimer = "id"

(***************************************************************************)
(* Claims about callbacks and the pool, checked under SpecCapsules.        *)
(***************************************************************************)
\* C21: no callback is pending for a node that is not active (a pooled
\* node), and a node is taken for a new profile with nothing pending for it,
\* so every pending callback was scheduled in the current life of its node:
\* it holds the node's current content <div>, and a typewriter step types
\* the node's current text.  While a node stays pooled nothing changes it.
C21_NoStaleCallbacks ==
  /\ [](\A c \in Pending :
          /\ c.node \in capsules.active
          /\ c.attached
          /\ c.kind = "step" =>
               c.chars = nodes[c.node].fullText /\ nodes[c.node].doneCalls = 0)
  /\ [][/\ \A n \in Spawned : \A c \in Pending : c.node # n
        /\ \A n \in DOMAIN nodes :
             n \notin capsules.active /\ n \notin capsules'.active => nodes'[n] = nodes[n]]_vars

\* A node that was dissolved and pooled before is on screen again, typed out
\* and waiting for its hold timer, while another node lies in the pool.
C21_SecondLife ==
  /\ capsules.pool # <<>>
  /\ \E n \in capsules.active :
       /\ nodes[n].transform = "translate3d"
       /\ nodes[n].opacity = 1000
       /\ \E c \in Pending : c.node = n /\ c.kind = "hold"

====
